---- MODULE Spec2Model ----
(***************************************************************************)
(* Model of src/main.rs: the decoder of raw RPC transactions and blocks.   *)
(*                                                                         *)
(* Rust String values are sequences of one-character strings, so that      *)
(* format! and string comparison are computed rather than assumed.         *)
(* Option<T> is a sequence of length 0 (None) or 1 (Some).  A u64 is a     *)
(* sequence of four 16-bit limbs, least significant first, so that the     *)
(* full 64-bit width is kept.  A usize index is a natural number.          *)
(***************************************************************************)
EXTENDS Integers, Sequences, FiniteSets, TLC

VARIABLES
  pc,            \* position of the program
  raw_data,      \* test_transaction: Option<RpcResponse.result>
  clean_tx,      \* test_transaction: Option<ParsedTransaction>
  raw_block,     \* test_block: Option<RpcBlockResponse.result>
  rewards,       \* test_block: Vec<BlockReward>
  tx_pos,        \* test_block: transactions consumed by the map iterator
  parsed_txs,    \* test_block: Vec<ParsedTransaction> collected so far
  parsed_block,  \* test_block: Option<ParsedBlock>
  stats          \* print_block_summary: Option<successful, failed, total_fees>

vars == <<pc, raw_data, clean_tx, raw_block, rewards, tx_pos, parsed_txs,
          parsed_block, stats>>

(***************************************************************************)
(* Bounds of the model.                                                    *)
(***************************************************************************)
MaxStatic == 2
MaxLoaded == 1
MaxAccts == 2
MaxIx == 2
MaxTx == 3
MaxRewards == 2

(***************************************************************************)
(* Option<T>.                                                              *)
(***************************************************************************)
None == <<>>
Some(v) == <<v>>
is_none(o) == Len(o) = 0

RECURSIVE SeqsOfLen(_, _)
SeqsOfLen(S, n) ==
  IF n = 0 THEN {<<>>}
  ELSE {Append(s, x) : s \in SeqsOfLen(S, n - 1), x \in S}

SeqsUpTo(S, n) == UNION {SeqsOfLen(S, k) : k \in 0..n}

(***************************************************************************)
(* String literals of the program.                                         *)
(***************************************************************************)
UNKNOWN_PROGRAM_INDEX ==
  <<"U","N","K","N","O","W","N","_","P","R","O","G","R","A","M","_",
    "I","N","D","E","X">>

UNKNOWN_IDX_ == <<"U","N","K","N","O","W","N","_","I","D","X","_">>

DigitChars == <<"0","1","2","3","4","5","6","7","8","9">>

FormatUsize_LastDigit(n) == <<DigitChars[(n % 10) + 1]>>

\* format!("{}", idx) for a usize: decimal, no sign, no leading zeros.
RECURSIVE FormatUsize(_)
FormatUsize(n) ==
  IF n < 10 THEN <<DigitChars[n + 1]>>
  ELSE Append(FormatUsize(n \div 10), DigitChars[(n % 10) + 1])

\* format!("UNKNOWN_IDX_{}", idx)
FormatUnknownIdx(idx) == UNKNOWN_IDX_ \o FormatUsize(idx)

(***************************************************************************)
(* u64 arithmetic on four 16-bit limbs.                                    *)
(***************************************************************************)
LimbBase == 65536
U64Limbs == 4

U64(n) == <<n % LimbBase, n \div LimbBase, 0, 0>>
U64Max == <<LimbBase - 1, LimbBase - 1, LimbBase - 1, LimbBase - 1>>

\* Limb-wise addition with carry; the result has one limb more than the
\* operands: the last limb is the carry out of the top limb.
RECURSIVE AddLimbs(_, _, _)
AddLimbs(a, b, carry) ==
  IF Len(a) = 0 THEN <<carry>>
  ELSE LET s == Head(a) + Head(b) + carry
       IN  <<s % LimbBase>> \o AddLimbs(Tail(a), Tail(b), s \div LimbBase)

\* u64 + u64 as the hardware computes it: [overflowed, wrapped value].
OverflowingAdd(a, b) ==
  LET full == AddLimbs(a, b, 0)
  IN  [value |-> SubSeq(full, 1, U64Limbs), overflow |-> full[U64Limbs + 1] # 0]

(***************************************************************************)
(* parse_single_transaction                                                *)
(***************************************************************************)
\* Vec::extend: appends the elements of xs to v in order.
Extend(v, xs) == v \o xs

BuildAccountKeys_ReadonlyFirst(message, meta) ==
  LET all_account_keys == message.account_keys
  IN  IF ~is_none(meta.loaded_addresses)
      THEN LET loaded == meta.loaded_addresses[1]
           IN  Extend(Extend(all_account_keys, loaded.readonly), loaded.writable)
      ELSE all_account_keys

\* The full account list (static + loaded addresses).
BuildAccountKeys(message, meta) ==
  LET all_account_keys == message.account_keys
  IN  IF ~is_none(meta.loaded_addresses)
      THEN LET loaded == meta.loaded_addresses[1]
           IN  Extend(Extend(all_account_keys, loaded.writable), loaded.readonly)
      ELSE all_account_keys

ResolveProgramId_Tagged(all_account_keys, program_id_index) ==
  IF program_id_index < Len(all_account_keys)
  THEN all_account_keys[program_id_index + 1]
  ELSE FormatUnknownIdx(program_id_index)

\* Resolve Program ID (indices are 0-based in the program).
ResolveProgramId(all_account_keys, program_id_index) ==
  IF program_id_index < Len(all_account_keys)
  THEN all_account_keys[program_id_index + 1]
  ELSE UNKNOWN_PROGRAM_INDEX

ResolveAccount_OffByOne(all_account_keys, idx) ==
  IF idx + 1 < Len(all_account_keys)
  THEN all_account_keys[idx + 1]
  ELSE FormatUnknownIdx(idx)

\* Resolve one account index.
ResolveAccount(all_account_keys, idx) ==
  IF idx < Len(all_account_keys)
  THEN all_account_keys[idx + 1]
  ELSE FormatUnknownIdx(idx)

ParseInstruction_DropUnknown(all_account_keys, ix) ==
  LET InRange(idx) == idx < Len(all_account_keys)
      kept == SelectSeq(ix.accounts, InRange)
  IN  [program_id |-> ResolveProgramId(all_account_keys, ix.program_id_index),
       accounts   |-> [k \in 1..Len(kept) |-> ResolveAccount(all_account_keys, kept[k])],
       data       |-> ix.data]

\* The closure over one instruction: program id, accounts, data.
ParseInstruction(all_account_keys, ix) ==
  [program_id |-> ResolveProgramId(all_account_keys, ix.program_id_index),
   accounts   |-> [k \in 1..Len(ix.accounts) |->
                     ResolveAccount(all_account_keys, ix.accounts[k])],
   data       |-> ix.data]

\* message.instructions.iter().map(..).collect()
ParseInstructions(all_account_keys, instructions) ==
  [k \in 1..Len(instructions) |-> ParseInstruction(all_account_keys, instructions[k])]

Index0_OrDefault(v) == IF Len(v) = 0 THEN Some(<<>>) ELSE Some(v[1])

\* v[0].clone() on a Vec<String>: None stands for the panic "index out of
\* bounds: the len is 0 but the index is 0".
Index0(v) == IF Len(v) = 0 THEN None ELSE Some(v[1])

IsSuccess_Inverted(meta) == ~is_none(meta.err)

\* meta.err.is_none()
IsSuccess(meta) == is_none(meta.err)

BuildParsedTransaction_SwapBalances(signature, fee_payer, meta, all_account_keys, parsed_instructions) ==
  [signature    |-> signature,
   fee_payer    |-> fee_payer,
   is_success   |-> IsSuccess(meta),
   account_keys |-> all_account_keys,
   instructions |-> parsed_instructions,
   log_messages |-> meta.log_messages,
   pre_balances |-> meta.post_balances,
   post_balances |-> meta.pre_balances,
   fee          |-> meta.fee,
   compute_units_consumed |-> meta.compute_units_consumed]

\* The ParsedTransaction struct expression.
BuildParsedTransaction(signature, fee_payer, meta, all_account_keys, parsed_instructions) ==
  [signature    |-> signature,
   fee_payer    |-> fee_payer,
   is_success   |-> IsSuccess(meta),
   account_keys |-> all_account_keys,
   instructions |-> parsed_instructions,
   log_messages |-> meta.log_messages,
   pre_balances |-> meta.pre_balances,
   post_balances |-> meta.post_balances,
   fee          |-> meta.fee,
   compute_units_consumed |-> meta.compute_units_consumed]

\* The result is None when the function panics and Some(record) otherwise.
\* The instructions are parsed before the struct expression reads
\* tx.signatures[0] and then message.account_keys[0].
parse_single_transaction(tx, meta) ==
  LET message == tx.message
      all_account_keys == BuildAccountKeys(message, meta)
      parsed_instructions == ParseInstructions(all_account_keys, message.instructions)
      signature == Index0(tx.signatures)
      fee_payer == Index0(message.account_keys)
  IN  IF is_none(signature) THEN None
      ELSE IF is_none(fee_payer) THEN None
      ELSE Some(BuildParsedTransaction(signature[1], fee_payer[1], meta,
                                       all_account_keys, parsed_instructions))

(***************************************************************************)
(* Block statistics of print_block_summary.                                *)
(***************************************************************************)
\* block.transactions.iter().filter(|tx| tx.is_success).count()
RECURSIVE CountSuccessful(_)
CountSuccessful(txs) ==
  IF Len(txs) = 0 THEN 0
  ELSE (IF Head(txs).is_success THEN 1 ELSE 0) + CountSuccessful(Tail(txs))

\* block.transactions.iter().map(|tx| tx.fee).sum::<u64>(): a left fold of
\* u64 additions from 0.  overflow is TRUE when some addition overflowed;
\* value is then the wrapped result.
RECURSIVE SumFees(_, _)
SumFees(txs, acc) ==
  IF Len(txs) = 0 THEN acc
  ELSE LET r == OverflowingAdd(acc.value, Head(txs).fee)
       IN  SumFees(Tail(txs),
                   [value |-> r.value, overflow |-> acc.overflow \/ r.overflow])

TotalFees(txs) == SumFees(txs, [value |-> U64(0), overflow |-> FALSE])

BlockStats(block) ==
  LET successful == CountSuccessful(block.transactions)
  IN  [successful |-> successful,
       failed     |-> Len(block.transactions) - successful,
       total_fees |-> TotalFees(block.transactions).value]

CollectPush_Front(v, x) == <<x>> \o v

\* collect(): the next item of the iterator is pushed at the end of the Vec.
CollectPush(v, x) == Append(v, x)

\* rewards: each RpcReward is rebuilt field by field as a BlockReward.
ParseReward(r) ==
  [pubkey       |-> r.pubkey,
   lamports     |-> r.lamports,
   post_balance |-> r.post_balance,
   reward_type  |-> r.reward_type,
   commission   |-> r.commission]

ParseRewards(rs) == [k \in 1..Len(rs) |-> ParseReward(rs[k])]

AssembleBlock(block, rws, txs) ==
  [block_height       |-> block.block_height,
   block_time         |-> block.block_time,
   blockhash          |-> block.blockhash,
   parent_slot        |-> block.parent_slot,
   previous_blockhash |-> block.previous_blockhash,
   rewards            |-> rws,
   transactions       |-> txs]

(***************************************************************************)
(* Inputs: what load_from_json can hand to the program.                    *)
(***************************************************************************)
AddrA == <<"A">>
AddrB == <<"B">>
AddrC == <<"C">>

StaticKeyLists == SeqsUpTo({AddrA, AddrB}, MaxStatic)

LoadedAddressValues ==
  {None} \cup
  {Some([writable |-> w, readonly |-> r]) :
     w \in SeqsUpTo({AddrB}, MaxLoaded), r \in SeqsUpTo({AddrC}, MaxLoaded)}

Indices == {0, 1, 2, 5, 12}
DataValues == {<<"x">>, <<"y">>}

SignatureLists == {<<>>, << <<"s","1">> >>, << <<"s","2">>, <<"s","1">> >>}
ErrValues == {None, Some(<<"E","r","r">>)}

MetaRest ==
  { [log_messages |-> <<>>, pre_balances |-> <<>>, post_balances |-> <<>>,
     fee |-> U64(5000), compute_units_consumed |-> None],
    [log_messages |-> << <<"o","k">>, <<"l","o","g">> >>,
     pre_balances |-> <<U64(10), U64(7)>>,
     post_balances |-> <<U64(3), U64(14)>>,
     fee |-> U64Max, compute_units_consumed |-> Some(U64(300))] }

MkMeta(err, loaded, rest) ==
  [err |-> err,
   log_messages |-> rest.log_messages,
   pre_balances |-> rest.pre_balances,
   post_balances |-> rest.post_balances,
   loaded_addresses |-> loaded,
   fee |-> rest.fee,
   compute_units_consumed |-> rest.compute_units_consumed]

MkResult(sigs, keys, ixs, meta) ==
  [meta |-> meta,
   transaction |-> [signatures |-> sigs,
                    message |-> [account_keys |-> keys, instructions |-> ixs]]]

PlainRest ==
  [log_messages |-> << <<"o","k">> >>, pre_balances |-> <<U64(10)>>,
   post_balances |-> <<U64(4)>>, fee |-> U64(6), compute_units_consumed |-> Some(U64(150))]

\* Every account table up to the bounds, with one instruction over every
\* combination of indices.
TableInputs ==
  {MkResult(<< <<"s","1">> >>, keys,
            <<[program_id_index |-> p, accounts |-> a, data |-> <<"x">>]>>,
            MkMeta(None, loaded, PlainRest)) :
     keys \in StaticKeyLists, loaded \in LoadedAddressValues,
     p \in Indices, a \in SeqsUpTo(Indices, MaxAccts)}

ListInstructions ==
  [program_id_index : {0, 12}, accounts : {<<1>>, <<5, 12>>}, data : DataValues]

\* Every instruction list up to the bounds, over two account tables.
InstructionInputs ==
  {MkResult(<< <<"s","1">> >>, <<AddrA, AddrB>>, ixs,
            MkMeta(None, loaded, PlainRest)) :
     ixs \in SeqsUpTo(ListInstructions, MaxIx),
     loaded \in {None, Some([writable |-> <<AddrB>>, readonly |-> <<AddrC>>])}}

\* Every combination of signatures, error value and meta fields, over a few
\* messages.
EnvelopeInputs ==
  {MkResult(sigs, keys, ixs, MkMeta(err, loaded, rest)) :
     sigs \in SignatureLists, err \in ErrValues, rest \in MetaRest,
     keys \in {<<>>, <<AddrA>>, <<AddrB, AddrA>>},
     loaded \in {None, Some([writable |-> <<AddrB>>, readonly |-> <<AddrC>>])},
     ixs \in {<<>>, <<[program_id_index |-> 7, accounts |-> <<0, 9>>, data |-> <<"y">>]>>}}

RpcResults == TableInputs \cup InstructionInputs \cup EnvelopeInputs

RpcRewards ==
  { [pubkey |-> AddrA, lamports |-> 5, post_balance |-> U64(100),
     reward_type |-> <<"F","e","e">>, commission |-> None],
    [pubkey |-> AddrB, lamports |-> -3, post_balance |-> U64Max,
     reward_type |-> <<"R","e","n","t">>, commission |-> Some(8)] }

BlockHeaders ==
  { [block_height |-> U64(7), block_time |-> 1700, blockhash |-> <<"h","7">>,
     parent_slot |-> U64(6), previous_blockhash |-> <<"h","6">>],
    [block_height |-> U64Max, block_time |-> -1, blockhash |-> <<"h","9">>,
     parent_slot |-> U64(0), previous_blockhash |-> <<>>] }

FeeRest(fee) ==
  [log_messages |-> << <<"o","k">> >>, pre_balances |-> <<U64(10)>>,
   post_balances |-> <<U64(4)>>, fee |-> fee, compute_units_consumed |-> None]

LoadedBC == Some([writable |-> <<AddrB>>, readonly |-> <<AddrC>>])

\* The transactions a block is drawn from: successful and failed ones, fees
\* up to the largest u64, and transactions without a signature or without a
\* static account key.
RpcBlockTransactions ==
  { MkResult(<< <<"s","1">> >>, <<AddrA, AddrB>>,
             <<[program_id_index |-> 0, accounts |-> <<1>>, data |-> <<"x">>]>>,
             MkMeta(None, None, FeeRest(U64(10)))),
    MkResult(<< <<"s","2">>, <<"s","1">> >>, <<AddrA>>,
             <<[program_id_index |-> 2, accounts |-> <<5>>, data |-> <<"y">>]>>,
             MkMeta(Some(<<"E","r","r">>), LoadedBC, FeeRest(U64(20)))),
    MkResult(<< <<"s","3">> >>, <<AddrB>>, <<>>,
             MkMeta(None, None, FeeRest(U64(30)))),
    MkResult(<< <<"s","4">> >>, <<AddrA>>, <<>>,
             MkMeta(None, None, FeeRest(U64Max))),
    MkResult(<<>>, <<AddrA>>, <<>>,
             MkMeta(None, None, FeeRest(U64(10)))),
    MkResult(<< <<"s","5">> >>, <<>>, <<>>,
             MkMeta(None, LoadedBC, FeeRest(U64(20)))) }

RpcBlockResults ==
  { [block_height |-> h.block_height, block_time |-> h.block_time,
     blockhash |-> h.blockhash, parent_slot |-> h.parent_slot,
     previous_blockhash |-> h.previous_blockhash,
     rewards |-> rs, transactions |-> txs] :
     h \in BlockHeaders, rs \in SeqsUpTo(RpcRewards, MaxRewards),
     txs \in SeqsUpTo(RpcBlockTransactions, MaxTx) }

(***************************************************************************)
(* State machine.                                                          *)
(***************************************************************************)
Init ==
  /\ pc = "start"
  /\ raw_data = None
  /\ clean_tx = None
  /\ raw_block = None
  /\ rewards = <<>>
  /\ tx_pos = 0
  /\ parsed_txs = <<>>
  /\ parsed_block = None
  /\ stats = None

block_vars == <<raw_block, rewards, tx_pos, parsed_txs, parsed_block, stats>>

\* test_transaction: load_from_json returns Ok(raw_data).
LoadTransaction ==
  /\ pc = "start"
  /\ \E r \in RpcResults : raw_data' = Some(r)
  /\ pc' = "tx_loaded"
  /\ UNCHANGED <<clean_tx, block_vars>>

\* test_transaction: load_from_json returns Err; the function returns.
LoadTransactionFail ==
  /\ pc = "start"
  /\ pc' = "load_failed"
  /\ UNCHANGED <<raw_data, clean_tx, block_vars>>

\* test_transaction: clean_tx = parse_single_transaction(transaction, meta).
ParseTransaction ==
  /\ pc = "tx_loaded"
  /\ LET res == parse_single_transaction(raw_data[1].transaction, raw_data[1].meta)
     IN  IF is_none(res)
         THEN pc' = "panic_index_out_of_bounds" /\ clean_tx' = None
         ELSE pc' = "tx_parsed" /\ clean_tx' = res
  /\ UNCHANGED <<raw_data, block_vars>>

\* test_transaction: print_transaction_summary(&clean_tx) only prints.
PrintTransactionSummary ==
  /\ pc = "tx_parsed"
  /\ pc' = "tx_printed"
  /\ UNCHANGED <<raw_data, clean_tx, block_vars>>

NextTransaction ==
  \/ LoadTransaction
  \/ LoadTransactionFail
  \/ ParseTransaction
  \/ PrintTransactionSummary

SpecTransaction == Init /\ [][NextTransaction]_vars

\* test_block: load_from_json returns Ok(raw_block).
LoadBlock ==
  /\ pc = "start"
  /\ \E b \in RpcBlockResults : raw_block' = Some(b)
  /\ pc' = "block_loaded"
  /\ UNCHANGED <<raw_data, clean_tx, rewards, tx_pos, parsed_txs, parsed_block, stats>>

\* test_block: load_from_json returns Err; the function returns.
LoadBlockFail ==
  /\ pc = "start"
  /\ pc' = "load_failed"
  /\ UNCHANGED <<raw_data, clean_tx, block_vars>>

\* test_block: the rewards are mapped and collected.
ParseBlockRewards ==
  /\ pc = "block_loaded"
  /\ rewards' = ParseRewards(raw_block[1].rewards)
  /\ pc' = "rewards_parsed"
  /\ UNCHANGED <<raw_data, clean_tx, raw_block, tx_pos, parsed_txs, parsed_block, stats>>

\* test_block: one step of block.transactions.iter().map(..).collect().
\* A panic of parse_single_transaction unwinds test_block: its locals are
\* dropped and nothing after the map runs.
ParseNextTransaction ==
  /\ pc = "rewards_parsed"
  /\ tx_pos < Len(raw_block[1].transactions)
  /\ LET tx  == raw_block[1].transactions[tx_pos + 1]
         res == parse_single_transaction(tx.transaction, tx.meta)
     IN  IF is_none(res)
         THEN /\ pc' = "panic_index_out_of_bounds"
              /\ rewards' = <<>>
              /\ parsed_txs' = <<>>
              /\ tx_pos' = tx_pos
         ELSE /\ pc' = pc
              /\ rewards' = rewards
              /\ parsed_txs' = CollectPush(parsed_txs, res[1])
              /\ tx_pos' = tx_pos + 1
  /\ UNCHANGED <<raw_data, clean_tx, raw_block, parsed_block, stats>>

\* test_block: the iterator is exhausted and the ParsedBlock is built; the
\* collected vectors move into it.
BuildParsedBlock ==
  /\ pc = "rewards_parsed"
  /\ tx_pos = Len(raw_block[1].transactions)
  /\ parsed_block' = Some(AssembleBlock(raw_block[1], rewards, parsed_txs))
  /\ rewards' = <<>>
  /\ parsed_txs' = <<>>
  /\ pc' = "block_assembled"
  /\ UNCHANGED <<raw_data, clean_tx, raw_block, tx_pos, stats>>

\* print_block_summary(&parsed_block).  The u64 sum of the fees panics on
\* overflow in a build with overflow checks (the debug profile) and wraps in
\* a build without them (the release profile).
PrintBlockSummary ==
  /\ pc = "block_assembled"
  /\ \/ /\ ~TotalFees(parsed_block[1].transactions).overflow
        /\ stats' = Some(BlockStats(parsed_block[1]))
        /\ pc' = "block_printed"
     \/ /\ TotalFees(parsed_block[1].transactions).overflow
        /\ stats' = Some(BlockStats(parsed_block[1]))
        /\ pc' = "block_printed"
     \/ /\ TotalFees(parsed_block[1].transactions).overflow
        /\ stats' = None
        /\ pc' = "panic_add_overflow"
  /\ UNCHANGED <<raw_data, clean_tx, raw_block, rewards, tx_pos, parsed_txs, parsed_block>>

Next ==
  \/ LoadBlock
  \/ LoadBlockFail
  \/ ParseBlockRewards
  \/ ParseNextTransaction
  \/ BuildParsedBlock
  \/ PrintBlockSummary

Spec == Init /\ [][Next]_vars

(***************************************************************************)
(* Vocabulary of the properties.                                           *)
(***************************************************************************)
TxParsed == pc \in {"tx_parsed", "tx_printed"}
TxAttempted == pc \in {"tx_parsed", "tx_printed", "panic_index_out_of_bounds"}

InTx == raw_data[1].transaction
InMeta == raw_data[1].meta
InS == InTx.message.account_keys
InW == IF is_none(InMeta.loaded_addresses) THEN <<>>
       ELSE InMeta.loaded_addresses[1].writable
InR == IF is_none(InMeta.loaded_addresses) THEN <<>>
       ELSE InMeta.loaded_addresses[1].readonly
InIxs == InTx.message.instructions
OutTx == clean_tx[1]

\* The entry of the table S ++ W ++ R at the 0-based position i.
TableEntry(i) ==
  IF i < Len(InS) THEN InS[i + 1]
  ELSE IF i < Len(InS) + Len(InW) THEN InW[i - Len(InS) + 1]
  ELSE InR[i - Len(InS) - Len(InW) + 1]

TableLen == Len(InS) + Len(InW) + Len(InR)

\* The positions (instruction k, account j) of the input.
AccountPositions ==
  UNION {{<<k, j>> : j \in 1..Len(InIxs[k].accounts)} : k \in 1..Len(InIxs)}

IsPrefix(p, t) == Len(p) <= Len(t) /\ SubSeq(t, 1, Len(p)) = p

\* s contains the decimal digits of i as a contiguous run.
EmbedsIndex(s, i) ==
  LET d == FormatUsize(i)
  IN  \E a \in 1..Len(s) :
        a + Len(d) - 1 <= Len(s) /\ SubSeq(s, a, a + Len(d) - 1) = d

\* Reads a decimal numeral back; -1 when a character is no digit.
RECURSIVE ParseDecimal(_, _)
ParseDecimal(cs, acc) ==
  IF Len(cs) = 0 THEN acc
  ELSE IF \E d \in 0..9 : DigitChars[d + 1] = Head(cs)
       THEN ParseDecimal(Tail(cs),
                         acc * 10 + (CHOOSE d \in 0..9 : DigitChars[d + 1] = Head(cs)))
       ELSE -1

\* The index a sentinel names: the number after "UNKNOWN_IDX_", -1 if s is
\* not of that form.
SentinelIndex(s) ==
  IF IsPrefix(UNKNOWN_IDX_, s) /\ Len(s) > Len(UNKNOWN_IDX_)
  THEN ParseDecimal(SubSeq(s, Len(UNKNOWN_IDX_) + 1, Len(s)), 0)
  ELSE -1

(***************************************************************************)
(* C1: the account_keys of the record are S ++ W ++ R: the length is       *)
(* |S|+|W|+|R| and every position holds the key of that position of the    *)
(* concatenation, duplicates included (W and R empty without the           *)
(* loaded-address extension).                                              *)
(***************************************************************************)
C1_AccountTableIsConcatenation ==
  TxParsed =>
    /\ Len(OutTx.account_keys) = TableLen
    /\ \A i \in 0..(TableLen - 1) : OutTx.account_keys[i + 1] = TableEntry(i)

\* A table with loaded writable and readonly addresses that differ, and an
\* address that is both static and loaded.
C1_Witness ==
  /\ TxParsed
  /\ Len(InW) > 0 /\ Len(InR) > 0 /\ InW # InR
  /\ \E i \in 1..Len(InS) : InS[i] = InW[1]
  /\ OutTx.account_keys = InS \o InW \o InR

(***************************************************************************)
(* C2: every index an instruction carries (program id and accounts) that   *)
(* is below the length of the table S ++ W ++ R resolves to the table      *)
(* entry at that index, loaded addresses included; a resolved string       *)
(* that replaces the entry occurs only for an index >= the table length.   *)
(***************************************************************************)
C2_InRangeResolvesToTableEntry ==
  TxParsed =>
    /\ Len(OutTx.instructions) = Len(InIxs)
    /\ \A k \in 1..Len(InIxs) :
         LET p == InIxs[k].program_id_index
         IN  /\ p < TableLen => OutTx.instructions[k].program_id = TableEntry(p)
             /\ p >= TableLen => OutTx.instructions[k].program_id = UNKNOWN_PROGRAM_INDEX
    /\ \A q \in AccountPositions :
         LET i == InIxs[q[1]].accounts[q[2]]
             out == OutTx.instructions[q[1]].accounts
         IN  /\ q[2] <= Len(out)
             /\ i < TableLen => out[q[2]] = TableEntry(i)
             /\ i >= TableLen => out[q[2]] = FormatUnknownIdx(i)

\* Scenario B: the program index resolves to a loaded address, the last
\* entry of the table, and an account index is out of range.
C2_Witness ==
  /\ TxParsed
  /\ \E k \in 1..Len(InIxs) :
       /\ InIxs[k].program_id_index = TableLen - 1
       /\ InIxs[k].program_id_index >= Len(InS)
       /\ OutTx.instructions[k].program_id = AddrC
       /\ \E j \in 1..Len(InIxs[k].accounts) :
            /\ InIxs[k].accounts[j] = 5
            /\ OutTx.instructions[k].accounts[j] = FormatUnknownIdx(5)
       /\ \E j \in 1..Len(InIxs[k].accounts) :
            /\ InIxs[k].accounts[j] = TableLen - 1
            /\ OutTx.instructions[k].accounts[j] = AddrC

(***************************************************************************)
(* C3 as stated: every resolution returns a string that is the address at  *)
(* that table position or a sentinel that embeds the unresolved index;     *)
(* this holds of the account indices and fails for the program index.      *)
(***************************************************************************)
C3_EveryResolutionAddressOrTaggedSentinel ==
  TxParsed =>
    /\ \A k \in 1..Len(InIxs) :
         LET p == InIxs[k].program_id_index
             r == OutTx.instructions[k].program_id
         IN  \/ p < TableLen /\ r = TableEntry(p)
             \/ p >= TableLen /\ EmbedsIndex(r, p)
    /\ \A q \in AccountPositions :
         LET i == InIxs[q[1]].accounts[q[2]]
             r == OutTx.instructions[q[1]].accounts[q[2]]
         IN  \/ i < TableLen /\ r = TableEntry(i)
             \/ i >= TableLen /\ EmbedsIndex(r, i)

(***************************************************************************)
(* C3 amended: resolution never raises (the only panic of the parse is     *)
(* the read of the first signature or first static key, whatever the       *)
(* indices are), and every resolution returns a string: the address at     *)
(* that position, or for an account index the sentinel that embeds the     *)
(* index, or for a program index the fixed sentinel                        *)
(* UNKNOWN_PROGRAM_INDEX, which embeds no index.                           *)
(***************************************************************************)
C3_ResolutionTotalAddressOrSentinel ==
  /\ pc = "panic_index_out_of_bounds" /\ ~is_none(raw_data)
       => Len(InTx.signatures) = 0 \/ Len(InS) = 0
  /\ TxAttempted /\ Len(InTx.signatures) > 0 /\ Len(InS) > 0 => TxParsed
  /\ TxParsed =>
       /\ Len(OutTx.instructions) = Len(InIxs)
       /\ \A k \in 1..Len(InIxs) :
            LET p == InIxs[k].program_id_index
                r == OutTx.instructions[k].program_id
            IN  \/ p < TableLen /\ r = TableEntry(p)
                \/ p >= TableLen /\ r = UNKNOWN_PROGRAM_INDEX /\ ~EmbedsIndex(r, p)
       /\ \A q \in AccountPositions :
            LET i == InIxs[q[1]].accounts[q[2]]
                r == OutTx.instructions[q[1]].accounts[q[2]]
            IN  \/ i < TableLen /\ r = TableEntry(i)
                \/ i >= TableLen /\ IsPrefix(UNKNOWN_IDX_, r) /\ EmbedsIndex(r, i)

\* An instruction whose program index and one account index are out of
\* range and another account index is in range.
C3_Witness ==
  /\ TxParsed
  /\ \E k \in 1..Len(InIxs) :
       /\ InIxs[k].program_id_index >= TableLen
       /\ OutTx.instructions[k].program_id = UNKNOWN_PROGRAM_INDEX
       /\ \E j \in 1..Len(InIxs[k].accounts) :
            /\ InIxs[k].accounts[j] >= TableLen
            /\ IsPrefix(UNKNOWN_IDX_, OutTx.instructions[k].accounts[j])
       /\ \E j \in 1..Len(InIxs[k].accounts) :
            /\ InIxs[k].accounts[j] < TableLen
            /\ OutTx.instructions[k].accounts[j] = TableEntry(InIxs[k].accounts[j])

(***************************************************************************)
(* C4: an out-of-range account index i is replaced by "UNKNOWN_IDX_"       *)
(* followed by the decimal numeral of i: the index can be read back from   *)
(* the sentinel, and different out-of-range indices, in the same or in     *)
(* different instructions, give different sentinels.                       *)
(***************************************************************************)
C4_SentinelsEmbedIndexAndDiffer ==
  TxParsed =>
    \A q \in AccountPositions :
      LET i == InIxs[q[1]].accounts[q[2]]
          r == OutTx.instructions[q[1]].accounts[q[2]]
      IN  i >= TableLen =>
            /\ IsPrefix(UNKNOWN_IDX_, r)
            /\ SentinelIndex(r) = i
            /\ \A q2 \in AccountPositions :
                 LET i2 == InIxs[q2[1]].accounts[q2[2]]
                     r2 == OutTx.instructions[q2[1]].accounts[q2[2]]
                 IN  i2 >= TableLen /\ i2 # i => r2 # r

\* Two instructions with different out-of-range account indices, one of
\* one digit and one of two.
C4_Witness ==
  /\ TxParsed
  /\ \E q \in AccountPositions, q2 \in AccountPositions :
       /\ q[1] # q2[1]
       /\ InIxs[q[1]].accounts[q[2]] = 5
       /\ InIxs[q2[1]].accounts[q2[2]] = 12
       /\ TableLen <= 5
       /\ OutTx.instructions[q[1]].accounts[q[2]] = UNKNOWN_IDX_ \o <<"5">>
       /\ OutTx.instructions[q2[1]].accounts[q2[2]] = UNKNOWN_IDX_ \o <<"1", "2">>

(***************************************************************************)
(* C5: is_success is true exactly when the err value of the meta is        *)
(* absent, whatever the log messages, balances, fee and instructions are.  *)
(***************************************************************************)
C5_SuccessIffNoErr ==
  TxParsed => (OutTx.is_success <=> is_none(InMeta.err))

\* A failed transaction with log messages whose instruction resolved to
\* sentinels.
C5_Witness ==
  /\ TxParsed
  /\ ~is_none(InMeta.err)
  /\ ~OutTx.is_success
  /\ Len(InMeta.log_messages) > 0
  /\ \E k \in 1..Len(InIxs) : OutTx.instructions[k].program_id = UNKNOWN_PROGRAM_INDEX

(***************************************************************************)
(* C9: the record has as many instructions as the message, in the same     *)
(* order; the k-th has as many accounts as the k-th raw instruction has    *)
(* account indices, each at the position of its index (an out-of-range     *)
(* index is replaced in place), and the same data.                         *)
(***************************************************************************)
C9_InstructionShapeAndData ==
  TxParsed =>
    /\ Len(OutTx.instructions) = Len(InIxs)
    /\ \A k \in 1..Len(InIxs) :
         /\ OutTx.instructions[k].data = InIxs[k].data
         /\ Len(OutTx.instructions[k].accounts) = Len(InIxs[k].accounts)
         /\ \A j \in 1..Len(InIxs[k].accounts) :
              LET i == InIxs[k].accounts[j]
                  r == OutTx.instructions[k].accounts[j]
              IN  IF i < TableLen THEN r = TableEntry(i) ELSE SentinelIndex(r) = i

\* Two instructions with different data; one has an out-of-range account
\* index before another account index.
C9_Witness ==
  /\ TxParsed
  /\ Len(InIxs) = 2
  /\ InIxs[1].data # InIxs[2].data
  /\ OutTx.instructions[1].data = InIxs[1].data
  /\ Len(InIxs[1].accounts) = 2
  /\ InIxs[1].accounts[1] >= TableLen
  /\ Len(OutTx.instructions[1].accounts) = 2
  /\ Len(InIxs[2].accounts) = 1

(***************************************************************************)
(* C10: with a signature and a static key present, a record is produced;   *)
(* its signature is the first signature, its fee_payer the first static    *)
(* key, which is element 0 of its account_keys, and log_messages,          *)
(* pre_balances, post_balances, fee and compute_units_consumed are those   *)
(* of the meta.                                                            *)
(***************************************************************************)
C10_HeadFieldsAndMetaCopied ==
  /\ TxAttempted /\ Len(InTx.signatures) > 0 /\ Len(InS) > 0 => TxParsed
  /\ TxParsed =>
       /\ OutTx.signature = InTx.signatures[1]
       /\ OutTx.fee_payer = InS[1]
       /\ OutTx.fee_payer = OutTx.account_keys[1]
       /\ OutTx.log_messages = InMeta.log_messages
       /\ OutTx.pre_balances = InMeta.pre_balances
       /\ OutTx.post_balances = InMeta.post_balances
       /\ OutTx.fee = InMeta.fee
       /\ OutTx.compute_units_consumed = InMeta.compute_units_consumed

\* Two different signatures, two different static keys, balances that
\* differ before and after, and compute units present.
C10_Witness ==
  /\ TxParsed
  /\ Len(InTx.signatures) = 2 /\ InTx.signatures[1] # InTx.signatures[2]
  /\ Len(InS) = 2 /\ InS[1] # InS[2]
  /\ InMeta.pre_balances # InMeta.post_balances
  /\ Len(InMeta.log_messages) = 2
  /\ ~is_none(InMeta.compute_units_consumed)
  /\ OutTx.signature = <<"s", "2">>
  /\ OutTx.fee_payer = AddrB

(***************************************************************************)
(* Vocabulary of the block properties.                                     *)
(***************************************************************************)
BlockLoaded == ~is_none(raw_block)
BlockBuilt == ~is_none(parsed_block)
InBlock == raw_block[1]
OutBlock == parsed_block[1]

\* The transaction has no signature or no static account key.
NoHead(t) ==
  Len(t.transaction.signatures) = 0 \/ Len(t.transaction.message.account_keys) = 0

\* The mathematical sum of the fees, on one limb more than a u64: wide
\* enough for the sum of 65536 values of 64 bits.
RECURSIVE ExactFeeSum(_)
ExactFeeSum(txs) ==
  IF Len(txs) = 0 THEN <<0, 0, 0, 0, 0>>
  ELSE SubSeq(AddLimbs(Head(txs).fee \o <<0>>, ExactFeeSum(Tail(txs)), 0), 1, U64Limbs + 1)

(***************************************************************************)
(* C6 as stated: for a block of N normalized transactions the statistics   *)
(* satisfy successful + failed = N, successful is the number of            *)
(* transactions with is_success, and total_fees is the exact sum of the    *)
(* fees for every combination of u64 fees.  The u64 sum of the program     *)
(* wraps (or panics) once the sum passes 2^64 - 1.                         *)
(***************************************************************************)
C6_StatsCountAndExactFeeSum ==
  pc = "block_printed" =>
    LET txs == OutBlock.transactions
        st == stats[1]
    IN  /\ st.successful + st.failed = Len(txs)
        /\ st.successful = Cardinality({i \in 1..Len(txs) : txs[i].is_success})
        /\ st.total_fees \o <<0>> = ExactFeeSum(txs)

(***************************************************************************)
(* C7: the produced block has the N transactions of the raw block in       *)
(* order, the i-th being parse_single_transaction of the i-th raw          *)
(* transaction alone; its M rewards in order with the same pubkey,         *)
(* lamports, post_balance, reward_type and commission; and the same        *)
(* block height, block time, blockhash, parent slot and previous           *)
(* blockhash.                                                              *)
(***************************************************************************)
C7_BlockAssemblyPreservesOrderAndContent ==
  /\ pc = "rewards_parsed" =>
       /\ Len(parsed_txs) = tx_pos
       /\ \A i \in 1..tx_pos :
            Some(parsed_txs[i]) =
              parse_single_transaction(InBlock.transactions[i].transaction,
                                       InBlock.transactions[i].meta)
  /\ BlockBuilt =>
       /\ Len(OutBlock.transactions) = Len(InBlock.transactions)
       /\ \A i \in 1..Len(InBlock.transactions) :
            Some(OutBlock.transactions[i]) =
              parse_single_transaction(InBlock.transactions[i].transaction,
                                       InBlock.transactions[i].meta)
       /\ Len(OutBlock.rewards) = Len(InBlock.rewards)
       /\ \A j \in 1..Len(InBlock.rewards) :
            /\ OutBlock.rewards[j].pubkey = InBlock.rewards[j].pubkey
            /\ OutBlock.rewards[j].lamports = InBlock.rewards[j].lamports
            /\ OutBlock.rewards[j].post_balance = InBlock.rewards[j].post_balance
            /\ OutBlock.rewards[j].reward_type = InBlock.rewards[j].reward_type
            /\ OutBlock.rewards[j].commission = InBlock.rewards[j].commission
       /\ OutBlock.block_height = InBlock.block_height
       /\ OutBlock.block_time = InBlock.block_time
       /\ OutBlock.blockhash = InBlock.blockhash
       /\ OutBlock.parent_slot = InBlock.parent_slot
       /\ OutBlock.previous_blockhash = InBlock.previous_blockhash

\* A block assembled from three transactions, the first two different, and
\* two different rewards.
C7_Witness ==
  /\ BlockBuilt
  /\ Len(InBlock.transactions) = 3
  /\ InBlock.transactions[1] # InBlock.transactions[2]
  /\ Len(OutBlock.transactions) = 3
  /\ OutBlock.transactions[1].signature # OutBlock.transactions[2].signature
  /\ Len(InBlock.rewards) = 2
  /\ InBlock.rewards[1] # InBlock.rewards[2]
  /\ Len(OutBlock.rewards) = 2

(***************************************************************************)
(* C8: a transaction without a signature, or without a static account key  *)
(* (loaded addresses or not), makes parse_single_transaction panic: no     *)
(* record.  In a block the decode stops at the first such transaction:     *)
(* the iterator never passes it, and no block, no list of transactions     *)
(* and no statistics are produced.                                         *)
(***************************************************************************)
C8_MissingHeadAbortsBlock ==
  BlockLoaded =>
    /\ tx_pos <= Len(InBlock.transactions)
    /\ \A i \in 1..tx_pos : ~NoHead(InBlock.transactions[i])
    /\ \A i \in 1..Len(InBlock.transactions) :
         NoHead(InBlock.transactions[i]) =>
           /\ is_none(parse_single_transaction(InBlock.transactions[i].transaction,
                                               InBlock.transactions[i].meta))
           /\ ~BlockBuilt
           /\ is_none(stats)
           /\ pc \in {"block_loaded", "rewards_parsed", "panic_index_out_of_bounds"}
    /\ pc = "panic_index_out_of_bounds" =>
         /\ tx_pos < Len(InBlock.transactions)
         /\ NoHead(InBlock.transactions[tx_pos + 1])
         /\ parsed_txs = <<>>
         /\ ~BlockBuilt
         /\ is_none(stats)

\* The decode stopped at the third transaction, which has loaded addresses
\* and no static key, after two transactions were parsed.
C8_Witness ==
  /\ BlockLoaded
  /\ pc = "panic_index_out_of_bounds"
  /\ tx_pos = 2
  /\ Len(InBlock.transactions[3].transaction.signatures) > 0
  /\ Len(InBlock.transactions[3].transaction.message.account_keys) = 0
  /\ ~is_none(InBlock.transactions[3].meta.loaded_addresses)
  /\ parsed_txs = <<>>
  /\ ~BlockBuilt

====
